---- MODULE Spec2Model ----
(***************************************************************************)
(* The command-and-control core of the repository: the controller          *)
(* (src/c2_server.py) with its agent table, command table, presence map    *)
(* and push rooms, and the Agent Runtime (src/c2_agent.py).                *)
(*                                                                         *)
(* Every HTTP handler runs on a handler thread.  A handler is cut into     *)
(* steps exactly where the code leaves the database unlocked: a SELECT     *)
(* outside a transaction is one step, an INSERT/UPDATE/DELETE up to its    *)
(* commit is one step, and what the handler does after the commit (the     *)
(* presence test and the emit, building the response) is one step.         *)
(* Columns that no handler ever reads back (hostname, username, os_info,   *)
(* capabilities, first_seen) are left out of the rows.                     *)
(* A uuid4 is the next value of a counter: never one that was given out;   *)
(* the key generated right after it is the key of the same number.         *)
(* A socket session takes a sid no open session holds; no entry of the     *)
(* presence map outlives the session it names, so a sid that comes back    *)
(* is as good as a new one.                                                *)
(*                                                                         *)
(* The Agent Runtime has its main loop and the socket thread that runs     *)
(* the new_command callback.  A request of the Runtime and the handler     *)
(* transaction that serves it are one step.                                *)
(***************************************************************************)
EXTENDS Integers, Sequences, FiniteSets, TLC

\* ------------------------------------------------------------------ bounds
MaxAgents == 2      \* uuids the controller generates in a run
MaxCommands == 2    \* rows ever inserted into the commands table
MaxTime == 1        \* distinct readings of CURRENT_TIMESTAMP after the first
MaxThreads == 2     \* HTTP handlers in flight at the same time
MaxSids == 1        \* socket sessions open at the same time
MaxSessions == 2    \* socket sessions open at the same time in PresenceSpec
MaxIps == 1         \* distinct remote addresses
HandedCap == 2      \* where the count of deliveries of one command saturates

AgentIds == 1..MaxAgents
CommandIds == 1..MaxCommands
Threads == 1..MaxThreads
Sids == 1..MaxSids
Sessions == 1..MaxSessions
Ips == 1..MaxIps

\* A command text is the sequence of its characters.
NoText == <<>>
Whoami == <<"w", "h", "o", "a", "m", "i">>
RmRf == <<"r", "m", " ", "-", "r", "f", " ", "/">>
CommandTexts == {Whoami, RmRf}
ResultTexts == {"root", "other"}

NULL == "NULL"          \* SQL NULL in a TEXT column
NoIp == 0               \* a request body without ip_address
NullTime == 0 - 1       \* SQL NULL in a TIMESTAMP column

VARIABLES
    agents,             \* table agents: id -> row
    commands,           \* table commands: id -> row
    sqlite_sequence,    \* AUTOINCREMENT: largest command id ever used
    uuids,              \* how many uuid4 values were generated
    connected_agents,   \* presence map: agent_id -> sid
    rooms,              \* socket sessions: sid -> set of rooms joined
    inbox,              \* sid -> new_command events sent to that session, unread
    now,                \* the clock CURRENT_TIMESTAMP reads
    thr,                \* handler threads of the controller
    rt,                 \* the Agent Runtime process (C2Agent)
    handed,             \* command id -> times the Runtime took it as new work
    reported            \* command id -> last result the Runtime got through

vars == <<agents, commands, sqlite_sequence, uuids, connected_agents, rooms,
          inbox, now, thr, rt, handed, reported>>

db == <<agents, commands, sqlite_sequence, uuids>>
sock == <<connected_agents, rooms, inbox>>
agent == <<rt, handed, reported>>

\* ------------------------------------------------------------- the tables
\* Fernet.generate_key(): the key that goes with the uuid4 of the same call.
GenerateKey(agent_id) == <<"key", agent_id>>

\* base64.b64encode(encryption_key).decode()
Base64(key) == <<"b64">> \o key

AgentRow(agent_id, ip, status) ==
    [ip_address |-> ip, last_seen |-> now, status |-> status,
     encryption_key |-> Base64(GenerateKey(agent_id))]

\* A response that carries the key without the encoding of the stored one.
ResponseKeyRaw(agent_id) == GenerateKey(agent_id)

\* register_agent's response: 'encryption_key':
\* base64.b64encode(encryption_key).decode(), of the key it stored.
ResponseKey(agent_id) == Base64(GenerateKey(agent_id))

CommandRow(agent_id, command) ==
    [agent_id |-> agent_id, command |-> command, status |-> "pending",
     created_at |-> now, executed_at |-> NullTime, result |-> NULL]

Idle == [op |-> "idle", pc |-> "idle", agent_id |-> 0, command |-> NoText,
         command_id |-> 0, response |-> <<>>, code |-> 0,
         ip_address |-> NoIp, encryption_key |-> NULL]

Remove(f, k) == [x \in DOMAIN f \ {k} |-> f[x]]

\* ---------------------------------------------------------------- queries
\* send_command without its 404 test: the lookup always finds a row.
AgentExistsUnchecked(agent_id) == agent_id = agent_id

\* SELECT id FROM agents WHERE id = ?
AgentExists(agent_id) == agent_id \in DOMAIN agents

\* The poll of a ledger that looks for claimed rows: WHERE status = 'sent'.
PendingIdsSent(agent_id) ==
    {c \in DOMAIN commands :
        commands[c].agent_id = agent_id /\ commands[c].status = "sent"}

\* WHERE agent_id = ? AND status = 'pending'
PendingIds(agent_id) ==
    {c \in DOMAIN commands :
        commands[c].agent_id = agent_id /\ commands[c].status = "pending"}

\* ORDER BY created_at DESC, the order of get_agent_commands.
CreatedBeforeDesc(c, d) ==
    \/ commands[c].created_at > commands[d].created_at
    \/ commands[c].created_at = commands[d].created_at /\ c >= d

\* ORDER BY created_at ASC over a scan of the table in rowid order: rows with
\* the same created_at second come out in rowid order (SQLite's sorter keeps
\* the scan order of equal keys).
CreatedBefore(c, d) ==
    \/ commands[c].created_at < commands[d].created_at
    \/ commands[c].created_at = commands[d].created_at /\ c <= d

RECURSIVE OrderByCreatedAt(_)
OrderByCreatedAt(S) ==
    IF S = {} THEN <<>>
    ELSE LET first == CHOOSE c \in S : \A d \in S : CreatedBefore(c, d)
         IN  <<[id |-> first, command |-> commands[first].command]>>
                 \o OrderByCreatedAt(S \ {first})

\* SELECT id, command ... ORDER BY created_at ASC; fetchall()
PendingCommands(agent_id) == OrderByCreatedAt(PendingIds(agent_id))

\* The UPDATE with a clock that runs behind the one that wrote the row.
TouchSkewed(agent_id) ==
    [a \in DOMAIN agents |->
        IF a = agent_id
        THEN [agents[a] EXCEPT !.last_seen = now - 1, !.status = "active"]
        ELSE agents[a]]

\* UPDATE agents SET last_seen = CURRENT_TIMESTAMP, status = 'active'
\* WHERE id = ?
Touch(agent_id) ==
    [a \in DOMAIN agents |->
        IF a = agent_id
        THEN [agents[a] EXCEPT !.last_seen = now, !.status = "active"]
        ELSE agents[a]]

\* The rowid of a table declared without AUTOINCREMENT: one more than the
\* largest rowid that is in the table now.
MaxRowidPlusOne ==
    IF DOMAIN commands = {} THEN 1
    ELSE 1 + CHOOSE c \in DOMAIN commands : \A d \in DOMAIN commands : d <= c

\* id INTEGER PRIMARY KEY AUTOINCREMENT; command_id = cursor.lastrowid: one
\* more than the largest rowid the table ever held.
LastRowid == sqlite_sequence + 1

\* The UPDATE without the owner in its WHERE clause: WHERE id = ?
RecordResultAnyAgent(agent_id, command_id, result) ==
    [c \in DOMAIN commands |->
        IF c = command_id
        THEN [commands[c] EXCEPT !.status = "completed", !.executed_at = now,
                                 !.result = result]
        ELSE commands[c]]

\* UPDATE commands SET status = 'completed', executed_at = CURRENT_TIMESTAMP,
\* result = ? WHERE id = ? AND agent_id = ?
RecordResult(agent_id, command_id, result) ==
    [c \in DOMAIN commands |->
        IF c = command_id /\ commands[c].agent_id = agent_id
        THEN [commands[c] EXCEPT !.status = "completed", !.executed_at = now,
                                 !.result = result]
        ELSE commands[c]]

\* socketio.emit(event, room=r): every session that joined room r gets it.
EmitToRoom(room, event) ==
    [s \in DOMAIN inbox |->
        IF room \in rooms[s] THEN Append(inbox[s], event) ELSE inbox[s]]

\* The rows of the agents table after register_agent's INSERT; status takes
\* the column default 'active'.
InsertAgent(agent_id, ip) ==
    agents @@ (agent_id :> AgentRow(agent_id, ip, "active"))

\* The rows after add_agent_manually's INSERT, which names the status.
InsertManualAgent(agent_id, ip) ==
    agents @@ (agent_id :> AgentRow(agent_id, ip, "manual"))

\* add_agent_manually without its lookup: no address is ever taken.
IpTakenUnchecked(ip) == ip # ip

\* SELECT id FROM agents WHERE ip_address = ?
IpTaken(ip) == \E a \in DOMAIN agents : agents[a].ip_address = ip

\* delete_agent's statement on another column: WHERE id = ?
DeleteCommandsById(agent_id) ==
    [c \in {d \in DOMAIN commands : d # agent_id} |-> commands[c]]

\* DELETE FROM commands WHERE agent_id = ?
DeleteCommands(agent_id) ==
    [c \in {d \in DOMAIN commands : commands[d].agent_id # agent_id}
        |-> commands[c]]

\* DELETE FROM agents WHERE id = ?
DeleteAgentRow(agent_id) == Remove(agents, agent_id)

\* get_stats counts an agent as active when
\* datetime(last_seen) > datetime('now', '-5 minutes').  A step of the clock
\* is a lapse of more than five minutes, so 'now' less five minutes lies
\* after the reading before this one.
SeenWithinWindow(agent_id) == agents[agent_id].last_seen > now - 1

\* join_room(agent_id); connected_agents[agent_id] = request.sid
JoinRooms(sid, agent_id) == [rooms EXCEPT ![sid] = @ \cup {agent_id}]

JoinPresence(sid, agent_id) ==
    [a \in DOMAIN connected_agents \cup {agent_id} |->
        IF a = agent_id THEN sid ELSE connected_agents[a]]

\* A disconnect that deletes the entry of every agent whose room the
\* session had joined, whichever session the entry names.
DropPresenceOfRooms(sid) ==
    [a \in {b \in DOMAIN connected_agents : b \notin rooms[sid]}
        |-> connected_agents[a]]

\* A disconnect handler that leaves the presence map as it is.
KeepPresence(sid) == connected_agents

\* for agent_id, session_id in list(connected_agents.items()):
\*     if session_id == request.sid: del connected_agents[agent_id]
DropPresence(sid) ==
    [a \in {b \in DOMAIN connected_agents : connected_agents[b] # sid}
        |-> connected_agents[a]]

\* ------------------------------------------------------------------- Init
RtInit == [state |-> "UNREGISTERED", pc |-> "register", agent_id |-> 0,
           sid |-> 0, todo |-> <<>>, result |-> NULL,
           push |-> [pc |-> "wait", command_id |-> 0, result |-> NULL]]

Init ==
    /\ agents = <<>>
    /\ commands = <<>>
    /\ sqlite_sequence = 0
    /\ uuids = 0
    /\ connected_agents = <<>>
    /\ rooms = <<>>
    /\ inbox = <<>>
    /\ now = 0
    /\ thr = [t \in Threads |-> Idle]
    /\ rt = RtInit
    /\ handed = [c \in CommandIds |-> [push |-> 0, poll |-> 0]]
    /\ reported = [c \in CommandIds |-> NULL]

\* The wall clock advances.
Tick ==
    /\ now < MaxTime
    /\ now' = now + 1
    /\ UNCHANGED <<db, sock, thr, agent>>

\* ------------------------------------------------------- handler threads
\* A request is served by the first free handler thread.
Free(t) == thr[t] = Idle /\ \A u \in 1..(t - 1) : thr[u] # Idle

Busy(pc) == Cardinality({t \in Threads : thr[t].pc = pc})

\* A handler returns its response: the thread is free again.
Return(t) ==
    /\ thr[t].pc = "done"
    /\ thr' = [thr EXCEPT ![t] = Idle]
    /\ UNCHANGED <<db, sock, now, agent>>

\* ------------------------------------------------- operator-facing handlers
\* send_command, up to the agent lookup: 400 without a command text, 404 when
\* the SELECT finds no agent, otherwise on to the INSERT.
SendCommandSelect(t, agent_id, command) ==
    /\ Free(t)
    /\ (command # NoText /\ AgentExists(agent_id))
          => sqlite_sequence + Busy("insert") < MaxCommands
    /\ thr' = [thr EXCEPT ![t] =
          IF command = NoText
          THEN [Idle EXCEPT !.op = "send_command", !.pc = "done", !.code = 400]
          ELSE IF ~AgentExists(agent_id)
          THEN [Idle EXCEPT !.op = "send_command", !.pc = "done", !.code = 404,
                            !.agent_id = agent_id]
          ELSE [Idle EXCEPT !.op = "send_command", !.pc = "insert",
                            !.agent_id = agent_id, !.command = command]]
    /\ UNCHANGED <<db, sock, now, agent>>

\* INSERT INTO commands (agent_id, command); lastrowid; commit.
SendCommandInsert(t) ==
    /\ thr[t].op = "send_command" /\ thr[t].pc = "insert"
    /\ LET command_id == LastRowid IN
        /\ commands' = commands @@
              (command_id :> CommandRow(thr[t].agent_id, thr[t].command))
        /\ sqlite_sequence' = command_id
        /\ thr' = [thr EXCEPT ![t].pc = "emit", ![t].command_id = command_id]
    /\ UNCHANGED <<agents, uuids, sock, now, agent>>

\* send_command after the commit: push when the agent is in the presence
\* map, then answer 200 with the command id.
SendCommandEmit(t) ==
    /\ thr[t].op = "send_command" /\ thr[t].pc = "emit"
    /\ inbox' = IF thr[t].agent_id \in DOMAIN connected_agents
                THEN EmitToRoom(thr[t].agent_id,
                        [command_id |-> thr[t].command_id,
                         command |-> thr[t].command])
                ELSE inbox
    /\ thr' = [thr EXCEPT ![t] =
          [Idle EXCEPT !.op = "send_command", !.pc = "done", !.code = 200,
                       !.agent_id = thr[t].agent_id,
                       !.command_id = thr[t].command_id]]
    /\ UNCHANGED <<db, connected_agents, rooms, now, agent>>

\* add_agent_manually, up to the lookup of the address: 400 when a required
\* field is missing, 409 when the SELECT finds an agent with the address,
\* otherwise on to the INSERT with the uuid4 generated before the lookup.
AddAgentManuallySelect(t, ip) ==
    /\ Free(t)
    /\ (ip # NoIp /\ ~IpTaken(ip)) => uuids < MaxAgents
    /\ uuids' = IF ip # NoIp /\ ~IpTaken(ip) THEN uuids + 1 ELSE uuids
    /\ thr' = [thr EXCEPT ![t] =
          IF ip = NoIp
          THEN [Idle EXCEPT !.op = "add_agent_manually", !.pc = "done",
                            !.code = 400]
          ELSE IF IpTaken(ip)
          THEN [Idle EXCEPT !.op = "add_agent_manually", !.pc = "done",
                            !.code = 409, !.ip_address = ip]
          ELSE [Idle EXCEPT !.op = "add_agent_manually", !.pc = "insert",
                            !.agent_id = uuids + 1, !.ip_address = ip]]
    /\ UNCHANGED <<agents, commands, sqlite_sequence, sock, now, agent>>

\* INSERT INTO agents (..., status) VALUES (..., 'manual'); commit; 200.
AddAgentManuallyInsert(t) ==
    /\ thr[t].op = "add_agent_manually" /\ thr[t].pc = "insert"
    /\ agents' = InsertManualAgent(thr[t].agent_id, thr[t].ip_address)
    /\ thr' = [thr EXCEPT ![t] =
          [Idle EXCEPT !.op = "add_agent_manually", !.pc = "done",
                       !.code = 200, !.agent_id = thr[t].agent_id,
                       !.ip_address = thr[t].ip_address]]
    /\ UNCHANGED <<commands, sqlite_sequence, uuids, sock, now, agent>>

\* delete_agent, up to the lookup: 404 when the SELECT finds no agent.
DeleteAgentSelect(t, agent_id) ==
    /\ Free(t)
    /\ thr' = [thr EXCEPT ![t] =
          IF AgentExists(agent_id)
          THEN [Idle EXCEPT !.op = "delete_agent", !.pc = "delete",
                            !.agent_id = agent_id]
          ELSE [Idle EXCEPT !.op = "delete_agent", !.pc = "done",
                            !.code = 404, !.agent_id = agent_id]]
    /\ UNCHANGED <<db, sock, now, agent>>

\* The two DELETE statements and the commit, then 200.
DeleteAgentDelete(t) ==
    /\ thr[t].op = "delete_agent" /\ thr[t].pc = "delete"
    /\ commands' = DeleteCommands(thr[t].agent_id)
    /\ agents' = DeleteAgentRow(thr[t].agent_id)
    /\ thr' = [thr EXCEPT ![t] =
          [Idle EXCEPT !.op = "delete_agent", !.pc = "done", !.code = 200,
                       !.agent_id = thr[t].agent_id]]
    /\ UNCHANGED <<sqlite_sequence, uuids, sock, now, agent>>

\* ---------------------------------------------------- agent-facing handlers
\* register_agent: a fresh uuid4, one INSERT.
RegisterAgent(t, ip) ==
    /\ Free(t)
    /\ uuids < MaxAgents
    /\ uuids' = uuids + 1
    /\ agents' = InsertAgent(uuids + 1, ip)
    /\ thr' = [thr EXCEPT ![t] =
          [Idle EXCEPT !.op = "register_agent", !.pc = "done",
                       !.agent_id = uuids + 1, !.code = 200,
                       !.encryption_key = ResponseKey(uuids + 1)]]
    /\ UNCHANGED <<commands, sqlite_sequence, sock, now, agent>>

\* agent_checkin: the UPDATE and the SELECT of the pending commands are one
\* transaction; the response carries what the SELECT returned.
AgentCheckin(t, agent_id) ==
    /\ Free(t)
    /\ agents' = Touch(agent_id)
    /\ thr' = [thr EXCEPT ![t] =
          [Idle EXCEPT !.op = "agent_checkin", !.pc = "done",
                       !.agent_id = agent_id, !.code = 200,
                       !.response = PendingCommands(agent_id)]]
    /\ UNCHANGED <<commands, sqlite_sequence, uuids, sock, now, agent>>

\* submit_result: the UPDATE, then {'status': 'received'} whatever it matched.
SubmitResult(t, agent_id, command_id, result) ==
    /\ Free(t)
    /\ commands' = RecordResult(agent_id, command_id, result)
    /\ thr' = [thr EXCEPT ![t] =
          [Idle EXCEPT !.op = "submit_result", !.pc = "done", !.code = 200]]
    /\ UNCHANGED <<agents, sqlite_sequence, uuids, sock, now, agent>>

\* ------------------------------------------------------------ push channel
\* A socket session opens (handle_connect only prints).
HandleConnect(sid) ==
    /\ sid \notin DOMAIN rooms
    /\ rooms' = rooms @@ (sid :> {})
    /\ inbox' = inbox @@ (sid :> <<>>)
    /\ UNCHANGED <<db, connected_agents, now, thr, agent>>

\* join_agent from a session: no lookup of the agent id.
HandleJoinAgent(sid, agent_id) ==
    /\ sid \in DOMAIN rooms
    /\ rooms' = JoinRooms(sid, agent_id)
    /\ connected_agents' = JoinPresence(sid, agent_id)
    /\ UNCHANGED <<db, inbox, now, thr, agent>>

\* disconnect: every presence entry that still holds this sid is deleted;
\* the session leaves its rooms and what it had not read is gone.
HandleDisconnect(sid) ==
    /\ sid \in DOMAIN rooms
    /\ connected_agents' = DropPresence(sid)
    /\ rooms' = Remove(rooms, sid)
    /\ inbox' = Remove(inbox, sid)
    /\ UNCHANGED <<db, now, thr, agent>>

\* The controller under any callers of its endpoints.
Next ==
    \/ Tick
    \/ \E t \in Threads : Return(t)
    \/ \E t \in Threads, a \in AgentIds, c \in {NoText, Whoami} :
          SendCommandSelect(t, a, c)
    \/ \E t \in Threads : SendCommandInsert(t)
    \/ \E t \in Threads : SendCommandEmit(t)
    \/ \E t \in Threads, ip \in Ips : RegisterAgent(t, ip)
    \/ \E t \in Threads, a \in AgentIds : AgentCheckin(t, a)
    \/ \E t \in Threads, a \in AgentIds, c \in CommandIds, r \in ResultTexts :
          SubmitResult(t, a, c, r)
    \/ \E s \in Sids : HandleConnect(s)
    \/ \E s \in Sids, a \in AgentIds : HandleJoinAgent(s, a)
    \/ \E s \in Sids : HandleDisconnect(s)

Spec == Init /\ [][Next]_vars

\* The controller with no push channel ever opened: every agent polls.
PollNext ==
    \/ Tick
    \/ \E t \in Threads : Return(t)
    \/ \E t \in Threads, a \in AgentIds, c \in {NoText, Whoami} :
          SendCommandSelect(t, a, c)
    \/ \E t \in Threads : SendCommandInsert(t)
    \/ \E t \in Threads : SendCommandEmit(t)
    \/ \E t \in Threads, ip \in Ips : RegisterAgent(t, ip)
    \/ \E t \in Threads, a \in AgentIds : AgentCheckin(t, a)
    \/ \E t \in Threads, a \in AgentIds, c \in CommandIds, r \in ResultTexts :
          SubmitResult(t, a, c, r)

PollSpec == Init /\ [][PollNext]_vars

\* Operators enqueue for agents that are idle: no push channel is open and
\* no result is posted; an agent only checks in.
IdleNext ==
    \/ Tick
    \/ \E t \in Threads : Return(t)
    \/ \E t \in Threads, a \in AgentIds, c \in {NoText, Whoami} :
          SendCommandSelect(t, a, c)
    \/ \E t \in Threads : SendCommandInsert(t)
    \/ \E t \in Threads : SendCommandEmit(t)
    \/ \E t \in Threads, ip \in Ips : RegisterAgent(t, ip)
    \/ \E t \in Threads, a \in AgentIds : AgentCheckin(t, a)

IdleSpec == Init /\ [][IdleNext]_vars

\* The Agent Record Store and the ledger under operators who admit and
\* delete agents and enqueue, and agents that register, poll and report.
StoreNext ==
    \/ Tick
    \/ \E t \in Threads : Return(t)
    \/ \E t \in Threads, ip \in Ips : RegisterAgent(t, ip)
    \/ \E t \in Threads, ip \in Ips \cup {NoIp} : AddAgentManuallySelect(t, ip)
    \/ \E t \in Threads : AddAgentManuallyInsert(t)
    \/ \E t \in Threads, a \in AgentIds : DeleteAgentSelect(t, a)
    \/ \E t \in Threads : DeleteAgentDelete(t)
    \/ \E t \in Threads, a \in AgentIds : AgentCheckin(t, a)
    \/ \E t \in Threads, a \in AgentIds : SendCommandSelect(t, a, Whoami)
    \/ \E t \in Threads : SendCommandInsert(t)
    \/ \E t \in Threads : SendCommandEmit(t)
    \/ \E t \in Threads, a \in AgentIds, c \in CommandIds, r \in ResultTexts :
          SubmitResult(t, a, c, r)

StoreSpec == Init /\ [][StoreNext]_vars

\* Every operation that makes or touches an agent row and never deletes
\* one: registration, admission by hand, checkin, enqueue, result, and the
\* push channel's sessions.
LifeNext ==
    \/ Tick
    \/ \E t \in Threads : Return(t)
    \/ \E t \in Threads, ip \in Ips : RegisterAgent(t, ip)
    \/ \E t \in Threads, ip \in Ips : AddAgentManuallySelect(t, ip)
    \/ \E t \in Threads : AddAgentManuallyInsert(t)
    \/ \E t \in Threads, a \in AgentIds : AgentCheckin(t, a)
    \/ \E t \in Threads, a \in AgentIds : SendCommandSelect(t, a, Whoami)
    \/ \E t \in Threads : SendCommandInsert(t)
    \/ \E t \in Threads : SendCommandEmit(t)
    \/ \E t \in Threads, a \in AgentIds, c \in CommandIds :
          SubmitResult(t, a, c, "root")
    \/ \E s \in Sids : HandleConnect(s)
    \/ \E s \in Sids, a \in AgentIds : HandleJoinAgent(s, a)
    \/ \E s \in Sids : HandleDisconnect(s)

LifeSpec == Init /\ [][LifeNext]_vars

\* The push channel with more than one session open: sessions come, join
\* as agents and go while agents register and operators enqueue.
PresenceNext ==
    \/ \E t \in Threads : Return(t)
    \/ \E t \in Threads, ip \in Ips : RegisterAgent(t, ip)
    \/ \E t \in Threads, a \in AgentIds : SendCommandSelect(t, a, Whoami)
    \/ \E t \in Threads : SendCommandInsert(t)
    \/ \E t \in Threads : SendCommandEmit(t)
    \/ \E s \in Sessions : HandleConnect(s)
    \/ \E s \in Sessions, a \in AgentIds : HandleJoinAgent(s, a)
    \/ \E s \in Sessions : HandleDisconnect(s)

PresenceSpec == Init /\ [][PresenceNext]_vars

\* Agents that register and check in while time passes.  The clock goes on
\* and a handler that has started returns.
StaleNext ==
    \/ Tick
    \/ \E t \in Threads : Return(t)
    \/ \E t \in Threads, ip \in Ips : RegisterAgent(t, ip)
    \/ \E t \in Threads, a \in AgentIds : AgentCheckin(t, a)

StaleSpec ==
    /\ Init /\ [][StaleNext]_vars
    /\ WF_vars(Tick)
    /\ WF_vars(\E t \in Threads : Return(t))

\* ---------------------------------------------------------- Agent Runtime
UpperCase == <<"A", "B", "C", "D", "E", "F", "G", "H", "I", "J", "K", "L", "M", "N", "O", "P", "Q", "R", "S", "T", "U", "V", "W", "X", "Y", "Z">>
LowerCase == <<"a", "b", "c", "d", "e", "f", "g", "h", "i", "j", "k", "l", "m", "n", "o", "p", "q", "r", "s", "t", "u", "v", "w", "x", "y", "z">>

\* str.lower() on the characters of a command text
LowerChar(ch) ==
    IF \E i \in 1..Len(UpperCase) : UpperCase[i] = ch
    THEN LowerCase[CHOOSE i \in 1..Len(UpperCase) : UpperCase[i] = ch]
    ELSE ch

Lower(text) == [i \in 1..Len(text) |-> LowerChar(text[i])]

\* command.startswith(prefix)
StartsWith(text, prefix) ==
    Len(text) >= Len(prefix) /\ SubSeq(text, 1, Len(prefix)) = prefix

\* pattern in text
Contains(text, pattern) ==
    \E i \in 1..(Len(text) - Len(pattern) + 1) :
        SubSeq(text, i, i + Len(pattern) - 1) = pattern

forbidden_commands == {
    <<"r", "m", " ", "-", "r", "f">>,
    <<"f", "o", "r", "m", "a", "t">>,
    <<"d", "e", "l", " ", "/", "f">>,
    <<"s", "h", "u", "t", "d", "o", "w", "n">>,
    <<"r", "e", "b", "o", "o", "t">>,
    <<"m", "k", "f", "s">>,
    <<"d", "d", " ", "i", "f", "=">>,
    <<":", "(", ")", "{", " ", ":", "|", ":", "&", " ", "}", ";", ":">>,
    <<"c", "h", "m", "o", "d", " ", "7", "7", "7", " ", "/">>}

\* any(forbidden in command.lower() for forbidden in forbidden_commands)
IsForbidden(command) ==
    \E forbidden \in forbidden_commands : Contains(Lower(command), forbidden)

Cd == <<"c", "d", " ">>
Pwd == <<"p", "w", "d">>
Hostname == <<"h", "o", "s", "t", "n", "a", "m", "e">>
Sysinfo == <<"s", "y", "s", "i", "n", "f", "o">>

\* execute_command: the results a command text can give.  A text that goes
\* to the shell ends with its output, with the timeout message or with the
\* message of another exception.
ExecuteCommand(command) ==
    IF StartsWith(command, Cd) THEN {"cd: changed", "cd: error"}
    ELSE IF command = Pwd THEN {"cwd"}
    ELSE IF command = Whoami THEN {"user"}
    ELSE IF command = Hostname THEN {"host"}
    ELSE IF command = Sysinfo THEN {"sysinfo"}
    ELSE IF IsForbidden(command) THEN {"forbidden"}
    ELSE {"output", "timeout", "error"}

\* One more delivery of a command to the Runtime, by push or by poll.
Hand(command_id, path) ==
    [handed EXCEPT ![command_id][path] =
        IF @ < HandedCap THEN @ + 1 ELSE @]

\* A checkin() that ends the loop after the last command of a response.
AfterCommandsExit(todo) == IF todo = <<>> THEN "exit" ELSE "execute"

\* What the main loop does after a command of the checkin response, or after
\* an empty response: the next command, or the sleep.
AfterCommands(todo) == IF todo = <<>> THEN "sleep" ELSE "execute"

\* run() calls register(): POST /api/agent/register gives the agent its id.
RtRegister(ip) ==
    /\ rt.pc = "register"
    /\ uuids < MaxAgents
    /\ uuids' = uuids + 1
    /\ agents' = InsertAgent(uuids + 1, ip)
    /\ rt' = [rt EXCEPT !.agent_id = uuids + 1, !.state = "REGISTERED",
                        !.pc = "connect"]
    /\ UNCHANGED <<commands, sqlite_sequence, sock, now, thr, handed, reported>>

\* A run() that goes on to the socket after a register() that failed.
RtRegisterFailContinue ==
    /\ rt.pc = "register"
    /\ rt' = [rt EXCEPT !.pc = "connect"]
    /\ UNCHANGED <<db, sock, now, thr, handed, reported>>

\* register() fails (no answer, or an answer other than 200): run() returns.
RtRegisterFail ==
    /\ rt.pc = "register"
    /\ rt' = [rt EXCEPT !.pc = "exit"]
    /\ UNCHANGED <<db, sock, now, thr, handed, reported>>

\* connect_websocket() succeeds: a socket session is open; running = True.
RtConnectWebsocket(sid) ==
    /\ rt.pc = "connect"
    /\ sid \notin DOMAIN rooms
    /\ rooms' = rooms @@ (sid :> {})
    /\ inbox' = inbox @@ (sid :> <<>>)
    /\ rt' = [rt EXCEPT !.sid = sid, !.state = "RUNNING", !.pc = "checkin"]
    /\ UNCHANGED <<db, connected_agents, now, thr, handed, reported>>

\* connect_websocket() fails: polling only; running = True.
RtConnectFail ==
    /\ rt.pc = "connect"
    /\ rt' = [rt EXCEPT !.state = "RUNNING", !.pc = "checkin"]
    /\ UNCHANGED <<db, sock, now, thr, handed, reported>>

\* The connect callback's join_agent reaches the controller.
RtJoinAgent ==
    /\ rt.state = "RUNNING" /\ rt.sid \in DOMAIN rooms
    /\ rt.agent_id \notin rooms[rt.sid]
    /\ rooms' = JoinRooms(rt.sid, rt.agent_id)
    /\ connected_agents' = JoinPresence(rt.sid, rt.agent_id)
    /\ UNCHANGED <<db, inbox, now, thr, agent>>

\* checkin(): POST checkin; the commands of the response are to be executed.
RtCheckin ==
    /\ rt.state = "RUNNING" /\ rt.pc = "checkin"
    /\ agents' = Touch(rt.agent_id)
    /\ LET todo == PendingCommands(rt.agent_id) IN
          rt' = [rt EXCEPT !.todo = todo, !.pc = AfterCommands(todo)]
    /\ UNCHANGED <<commands, sqlite_sequence, uuids, sock, now, thr, handed,
                   reported>>

\* checkin(): result = self.execute_command(cmd['command'])
RtExecute ==
    /\ rt.state = "RUNNING" /\ rt.pc = "execute"
    /\ \E result \in ExecuteCommand(Head(rt.todo).command) :
          rt' = [rt EXCEPT !.result = result, !.pc = "submit"]
    /\ handed' = Hand(Head(rt.todo).id, "poll")
    /\ UNCHANGED <<db, sock, now, thr, reported>>

\* checkin(): self.submit_result(cmd['id'], result), then the next command.
RtSubmit ==
    /\ rt.state = "RUNNING" /\ rt.pc = "submit"
    /\ commands' = RecordResult(rt.agent_id, Head(rt.todo).id, rt.result)
    /\ reported' = [reported EXCEPT ![Head(rt.todo).id] = rt.result]
    /\ rt' = [rt EXCEPT !.todo = Tail(rt.todo), !.result = NULL,
                        !.pc = AfterCommands(Tail(rt.todo))]
    /\ UNCHANGED <<agents, sqlite_sequence, uuids, sock, now, thr, handed>>

\* time.sleep(30), then the next turn of the loop.
RtSleep ==
    /\ rt.state = "RUNNING" /\ rt.pc = "sleep"
    /\ rt' = [rt EXCEPT !.pc = "checkin"]
    /\ UNCHANGED <<db, sock, now, thr, handed, reported>>

\* The new_command callback on the socket thread: execute_command.
RtNewCommand ==
    /\ rt.state = "RUNNING" /\ rt.sid \in DOMAIN inbox
    /\ rt.push.pc = "wait"
    /\ inbox[rt.sid] # <<>>
    /\ LET data == Head(inbox[rt.sid]) IN
        /\ \E result \in ExecuteCommand(data.command) :
              rt' = [rt EXCEPT !.push = [pc |-> "submit",
                                         command_id |-> data.command_id,
                                         result |-> result]]
        /\ handed' = Hand(data.command_id, "push")
    /\ inbox' = [inbox EXCEPT ![rt.sid] = Tail(@)]
    /\ UNCHANGED <<db, connected_agents, rooms, now, thr, reported>>

\* The new_command callback: self.submit_result(data['command_id'], result)
RtPushSubmit ==
    /\ rt.state = "RUNNING" /\ rt.push.pc = "submit"
    /\ commands' = RecordResult(rt.agent_id, rt.push.command_id, rt.push.result)
    /\ reported' = [reported EXCEPT ![rt.push.command_id] = rt.push.result]
    /\ rt' = [rt EXCEPT !.push = RtInit.push]
    /\ UNCHANGED <<agents, sqlite_sequence, uuids, sock, now, thr, handed>>

\* KeyboardInterrupt in the loop: stop() clears running and disconnects the
\* socket if it is connected; the controller runs handle_disconnect.
RtStop ==
    /\ rt.state = "RUNNING"
    /\ rt' = [rt EXCEPT !.state = "STOPPED", !.pc = "exit", !.sid = 0]
    /\ IF rt.sid \in DOMAIN rooms
       THEN /\ connected_agents' = DropPresence(rt.sid)
            /\ rooms' = Remove(rooms, rt.sid)
            /\ inbox' = Remove(inbox, rt.sid)
       ELSE UNCHANGED sock
    /\ UNCHANGED <<db, now, thr, handed, reported>>

\* One Runtime against the controller, operators enqueueing commands; every
\* request of the Runtime gets its answer.
RuntimeNext ==
    \/ \E ip \in Ips : RtRegister(ip)
    \/ RtRegisterFail
    \/ \E s \in Sids : RtConnectWebsocket(s)
    \/ RtConnectFail
    \/ RtJoinAgent
    \/ RtCheckin
    \/ RtExecute
    \/ RtSubmit
    \/ RtSleep
    \/ RtNewCommand
    \/ RtPushSubmit
    \/ RtStop
    \/ \E t \in Threads : Return(t)
    \/ \E t \in Threads, a \in AgentIds, c \in CommandTexts :
          SendCommandSelect(t, a, c)
    \/ \E t \in Threads : SendCommandInsert(t)
    \/ \E t \in Threads : SendCommandEmit(t)

RuntimeSpec == Init /\ [][RuntimeNext]_vars

\* The main loop of a Runtime that is not interrupted goes on, the socket
\* thread serves what it receives, and a handler of the controller that has
\* started runs to its end.
RtMainLoop ==
    \/ \E s \in Sids : RtConnectWebsocket(s)
    \/ RtConnectFail
    \/ RtCheckin
    \/ RtExecute
    \/ RtSubmit
    \/ RtSleep

LiveSpec ==
    /\ Init /\ [][RuntimeNext]_vars
    /\ WF_vars(RtMainLoop)
    /\ WF_vars(RtJoinAgent)
    /\ WF_vars(RtNewCommand)
    /\ WF_vars(RtPushSubmit)
    /\ WF_vars(\E t \in Threads : SendCommandInsert(t))
    /\ WF_vars(\E t \in Threads : SendCommandEmit(t))
    /\ WF_vars(\E t \in Threads : Return(t))

\* Command texts that meet the denylist: in capitals, and behind "cd ".
RmRfUpper == <<"R", "M", " ", "-", "R", "F", " ", "/">>
CdRmRf == Cd \o RmRf
DenyTexts == {Whoami, RmRf, RmRfUpper, CdRmRf}

\* The Runtime against operators who enqueue the texts of DenyTexts.
DenyNext ==
    \/ \E ip \in Ips : RtRegister(ip)
    \/ RtRegisterFail
    \/ \E s \in Sids : RtConnectWebsocket(s)
    \/ RtConnectFail
    \/ RtJoinAgent
    \/ RtCheckin
    \/ RtExecute
    \/ RtSubmit
    \/ RtSleep
    \/ RtNewCommand
    \/ RtPushSubmit
    \/ RtStop
    \/ \E t \in Threads : Return(t)
    \/ \E t \in Threads, a \in AgentIds, c \in DenyTexts :
          SendCommandSelect(t, a, c)
    \/ \E t \in Threads : SendCommandInsert(t)
    \/ \E t \in Threads : SendCommandEmit(t)

DenySpec == Init /\ [][DenyNext]_vars

\* checkin(): the POST raises or is answered with another code than 200;
\* checkin() returns False and the loop sleeps.
RtCheckinFail ==
    /\ rt.state = "RUNNING" /\ rt.pc = "checkin"
    /\ rt' = [rt EXCEPT !.todo = <<>>, !.pc = "sleep"]
    /\ UNCHANGED <<db, sock, now, thr, handed, reported>>

\* submit_result() in checkin(): the POST raises or is answered with another
\* code than 200; submit_result returns False and checkin() goes on.
RtSubmitFail ==
    /\ rt.state = "RUNNING" /\ rt.pc = "submit"
    /\ rt' = [rt EXCEPT !.todo = Tail(rt.todo), !.result = NULL,
                        !.pc = AfterCommands(Tail(rt.todo))]
    /\ UNCHANGED <<db, sock, now, thr, handed, reported>>

\* submit_result() in the new_command callback fails the same way.
RtPushSubmitFail ==
    /\ rt.state = "RUNNING" /\ rt.push.pc = "submit"
    /\ rt' = [rt EXCEPT !.push = RtInit.push]
    /\ UNCHANGED <<db, sock, now, thr, handed, reported>>

\* A text that goes to the shell, and one that the denylist rejects.
Ls == <<"l", "s">>
RobustTexts == {Ls, RmRf}

\* The Runtime against a controller that may fail to answer its requests;
\* one operator enqueues commands for the Runtime's agent, one at a time.
RobustNext ==
    \/ \E ip \in Ips : RtRegister(ip)
    \/ RtRegisterFail
    \/ \E s \in Sids : RtConnectWebsocket(s)
    \/ RtConnectFail
    \/ RtJoinAgent
    \/ RtCheckin
    \/ RtCheckinFail
    \/ RtExecute
    \/ RtSubmit
    \/ RtSubmitFail
    \/ RtSleep
    \/ RtNewCommand
    \/ RtPushSubmit
    \/ RtPushSubmitFail
    \/ RtStop
    \/ \E t \in Threads : Return(t)
    \/ \E c \in RobustTexts :
          rt.agent_id \in AgentIds /\ SendCommandSelect(1, rt.agent_id, c)
    \/ \E t \in Threads : SendCommandInsert(t)
    \/ \E t \in Threads : SendCommandEmit(t)

\* Every request of the Runtime ends, with an answer or with an exception
\* (timeout=10), so the main loop and the callback take their next step.
RobustSpec ==
    /\ Init /\ [][RobustNext]_vars
    /\ WF_vars(RtMainLoop \/ RtCheckinFail \/ RtSubmitFail)
    /\ WF_vars(RtPushSubmit \/ RtPushSubmitFail)

\* checkin() on the main thread enters execute_command.
RtExecuteBegin ==
    /\ rt.state = "RUNNING" /\ rt.pc = "execute"
    /\ rt' = [rt EXCEPT !.pc = "executing"]
    /\ handed' = Hand(Head(rt.todo).id, "poll")
    /\ UNCHANGED <<db, sock, now, thr, reported>>

\* execute_command on the main thread returns its result.
RtExecuteEnd ==
    /\ rt.state = "RUNNING" /\ rt.pc = "executing"
    /\ \E result \in ExecuteCommand(Head(rt.todo).command) :
          rt' = [rt EXCEPT !.result = result, !.pc = "submit"]
    /\ UNCHANGED <<db, sock, now, thr, handed, reported>>

\* The new_command callback on the socket thread enters execute_command;
\* its event stays at the head of the inbox until the callback has a result.
RtNewCommandBegin ==
    /\ rt.state = "RUNNING" /\ rt.sid \in DOMAIN inbox
    /\ rt.push.pc = "wait"
    /\ inbox[rt.sid] # <<>>
    /\ LET data == Head(inbox[rt.sid]) IN
        /\ rt' = [rt EXCEPT !.push = [pc |-> "executing",
                                      command_id |-> data.command_id,
                                      result |-> NULL]]
        /\ handed' = Hand(data.command_id, "push")
    /\ UNCHANGED <<db, sock, now, thr, reported>>

\* execute_command on the socket thread returns its result.
RtNewCommandEnd ==
    /\ rt.state = "RUNNING" /\ rt.sid \in DOMAIN inbox
    /\ rt.push.pc = "executing"
    /\ \E result \in ExecuteCommand(Head(inbox[rt.sid]).command) :
          rt' = [rt EXCEPT !.push.pc = "submit", !.push.result = result]
    /\ inbox' = [inbox EXCEPT ![rt.sid] = Tail(@)]
    /\ UNCHANGED <<db, connected_agents, rooms, now, thr, handed, reported>>

\* The Runtime with execute_command as a step that takes time, on the main
\* thread and on the socket thread.
ExecNext ==
    \/ \E ip \in Ips : RtRegister(ip)
    \/ RtRegisterFail
    \/ \E s \in Sids : RtConnectWebsocket(s)
    \/ RtConnectFail
    \/ RtJoinAgent
    \/ RtCheckin
    \/ RtExecuteBegin
    \/ RtExecuteEnd
    \/ RtSubmit
    \/ RtSleep
    \/ RtNewCommandBegin
    \/ RtNewCommandEnd
    \/ RtPushSubmit
    \/ RtStop
    \/ \E t \in Threads : Return(t)
    \/ \E t \in Threads, a \in AgentIds, c \in CommandTexts :
          SendCommandSelect(t, a, c)
    \/ \E t \in Threads : SendCommandInsert(t)
    \/ \E t \in Threads : SendCommandEmit(t)

ExecSpec == Init /\ [][ExecNext]_vars

\* ------------------------------------------------------------- properties
Ids(resp) == {resp[i].id : i \in 1..Len(resp)}

EventIds(box) == {box[i].command_id : i \in 1..Len(box)}

\* Thread t runs agent_checkin's transaction in this step.
CheckinStep(t) == thr[t] = Idle /\ thr'[t].op = "agent_checkin"

\* C1: two checkin handlers for the same agent that are in flight at the
\* same time carry disjoint sets of command ids in their responses.
C1_ConcurrentCheckinsDisjoint ==
    \A t1, t2 \in Threads :
        (/\ t1 # t2
         /\ thr[t1].op = "agent_checkin" /\ thr[t2].op = "agent_checkin"
         /\ thr[t1].agent_id = thr[t2].agent_id)
        => Ids(thr[t1].response) \cap Ids(thr[t2].response) = {}

\* C3: when a checkin for agent A commits, every command in its response has
\* status SENT and no command of A that was PENDING before is still PENDING.
C3_CheckinMarksSent ==
    [][\A t \in Threads : CheckinStep(t) =>
          /\ \A c \in Ids(thr'[t].response) : commands'[c].status = "sent"
          /\ \A c \in DOMAIN commands :
                (commands[c].agent_id = thr'[t].agent_id
                    /\ commands[c].status = "pending")
                => commands'[c].status # "pending"]_vars

\* C4: once a result was recorded for a command, no later step changes its
\* status, its result text or its executed timestamp.
C4_ResultRecordedOnce ==
    [][\A c \in DOMAIN commands \cap DOMAIN commands' :
          commands[c].status \in {"completed", "failed"}
          => /\ commands'[c].status = commands[c].status
             /\ commands'[c].result = commands[c].result
             /\ commands'[c].executed_at = commands[c].executed_at]_vars

\* C5: a command's status moves only along PENDING -> SENT ->
\* {COMPLETED, FAILED}; a PENDING command is never completed directly.
C5_StatusMonotonic ==
    [][\A c \in DOMAIN commands \cap DOMAIN commands' :
          /\ commands[c].status = "pending"
                => commands'[c].status \in {"pending", "sent"}
          /\ commands[c].status = "sent"
                => commands'[c].status \in {"sent", "completed", "failed"}
          /\ commands[c].status \in {"completed", "failed"}
                => commands'[c].status = commands[c].status]_vars

\* C6: when send_command finishes for an agent that is in the presence map,
\* the command was emitted as new_command and its status is SENT.
C6_PushMarksSent ==
    [][\A t \in Threads :
          (/\ thr[t].op = "send_command" /\ thr[t].pc = "emit"
           /\ thr'[t].pc = "done"
           /\ thr[t].agent_id \in DOMAIN connected_agents)
          => /\ \E s \in DOMAIN inbox' :
                    /\ Len(inbox'[s]) = Len(inbox[s]) + 1
                    /\ inbox'[s][Len(inbox'[s])].command_id = thr[t].command_id
             /\ commands'[thr[t].command_id].status = "sent"]_vars

\* C7: a command enqueued for an agent that holds no push channel is not
\* emitted, and once send_command has returned it stays PENDING through
\* every step up to the next checkin of its agent, whose response contains it.
C7_PendingUntilCheckin ==
    [][/\ \A t \in Threads :
             (/\ thr[t].op = "send_command" /\ thr[t].pc = "emit"
              /\ thr'[t].pc = "done"
              /\ thr[t].agent_id \notin DOMAIN connected_agents)
             => /\ inbox' = inbox
                /\ commands' = commands
       /\ \A c \in DOMAIN commands :
             (/\ commands[c].status = "pending"
              /\ \A t \in Threads : thr[t].command_id # c)
             => IF \E t \in Threads :
                      CheckinStep(t) /\ thr'[t].agent_id = commands[c].agent_id
                THEN \E t \in Threads :
                      CheckinStep(t) /\ c \in Ids(thr'[t].response)
                ELSE c \in DOMAIN commands'
                        /\ commands'[c].status = "pending"]_vars

\* C9: a checkin of an idle agent A returns every command enqueued for A,
\* each exactly once, in ascending order of command id.
C9_CheckinReturnsAllInOrder ==
    [][\A t \in Threads : CheckinStep(t) =>
          LET resp == thr'[t].response IN
          /\ Ids(resp) = {c \in DOMAIN commands :
                            commands[c].agent_id = thr'[t].agent_id}
          /\ \A i, j \in 1..Len(resp) : i < j => resp[i].id < resp[j].id
          /\ \A i \in 1..Len(resp) :
                resp[i].command = commands[resp[i].id].command]_vars

\* Two commands enqueued for the same idle agent, the second one by a
\* send_command that is still in flight, come back in one checkin response.
C9_Witness ==
    \E t, u \in Threads :
        /\ thr[t].op = "agent_checkin"
        /\ Len(thr[t].response) = 2
        /\ thr[t].agent_id \notin DOMAIN connected_agents
        /\ thr[u].op = "send_command" /\ thr[u].pc = "emit"
        /\ thr[u].command_id \in Ids(thr[t].response)

\* C10: send_command answers 404 exactly when the lookup finds no agent, and
\* then inserts no row, uses no command id and emits no event; otherwise it
\* inserts exactly one row, PENDING, under a fresh id, and answers that id.
C10_EnqueueUnknownAgent ==
    [][\A t \in Threads :
          /\ (thr[t] = Idle /\ thr'[t].op = "send_command")
                => /\ commands' = commands /\ sqlite_sequence' = sqlite_sequence
                   /\ inbox' = inbox
                   /\ thr'[t].code = 404 => thr'[t].agent_id \notin DOMAIN agents
                   /\ thr'[t].pc = "insert" => thr'[t].agent_id \in DOMAIN agents
          /\ (thr[t].op = "send_command" /\ thr[t].code \in {400, 404}
                   /\ thr'[t] # thr[t])
                => /\ thr'[t] = Idle
                   /\ commands' = commands /\ sqlite_sequence' = sqlite_sequence
                   /\ inbox' = inbox
          /\ (thr[t].op = "send_command" /\ thr[t].pc = "insert"
                   /\ thr'[t] # thr[t])
                => LET id == thr'[t].command_id IN
                   /\ id \notin DOMAIN commands
                   /\ \A c \in DOMAIN commands : c < id
                   /\ DOMAIN commands' = DOMAIN commands \cup {id}
                   /\ \A c \in DOMAIN commands : commands'[c] = commands[c]
                   /\ commands'[id].status = "pending"
                   /\ commands'[id].agent_id = thr[t].agent_id
                   /\ commands'[id].command = thr[t].command
          /\ (thr[t].op = "send_command" /\ thr[t].pc = "emit"
                   /\ thr'[t] # thr[t])
                => /\ thr'[t].code = 200
                   /\ thr'[t].command_id = thr[t].command_id
                   /\ commands' = commands]_vars

\* A request for an agent id that is not in the table was answered 404
\* while the table of commands already holds a row of an existing agent.
C10_Witness ==
    \E t \in Threads :
        /\ thr[t].op = "send_command" /\ thr[t].code = 404
        /\ thr[t].agent_id \notin DOMAIN agents
        /\ \E c \in DOMAIN commands : commands[c].agent_id \in DOMAIN agents

\* Thread t takes a request for handler op in this step.
Starts(t, op) == thr[t] = Idle /\ thr'[t].op = op

\* Thread t, in handler op at step pc, takes that step.
Steps(t, op, pc) == thr[t].op = op /\ thr[t].pc = pc /\ thr'[t] # thr[t]

\* The uuids that handlers other than t have generated and not yet inserted.
HeldIds(t) ==
    {thr[u].agent_id : u \in {v \in Threads \ {t} :
        thr[v].op = "add_agent_manually" /\ thr[v].pc = "insert"}}

\* C11: when delete_agent commits for agent X it answers 200, the row of X
\* and every command of X, whatever its status, are gone, and the rows of
\* the other agents and their commands are as they were.
C11_RemoveCascades ==
    [][\A t \in Threads : Steps(t, "delete_agent", "delete") =>
          LET X == thr[t].agent_id IN
          /\ thr'[t].pc = "done" /\ thr'[t].code = 200
          /\ X \notin DOMAIN agents'
          /\ \A c \in DOMAIN commands' : commands'[c].agent_id # X
          /\ \A c \in DOMAIN commands :
                commands[c].agent_id # X
                => c \in DOMAIN commands' /\ commands'[c] = commands[c]
          /\ DOMAIN commands' \subseteq DOMAIN commands
          /\ DOMAIN agents' = DOMAIN agents \ {X}
          /\ \A a \in DOMAIN agents' : agents'[a] = agents[a]]_vars

\* delete_agent answered 200 for an agent that is gone with its command,
\* while the completed command of the other agent is still in the ledger.
C11_Witness ==
    \E t \in Threads :
        /\ thr[t].op = "delete_agent" /\ thr[t].code = 200
        /\ thr[t].agent_id \notin DOMAIN agents
        /\ sqlite_sequence = 2 /\ Cardinality(DOMAIN commands) = 1
        /\ \E c \in DOMAIN commands :
              /\ commands[c].agent_id \in DOMAIN agents
              /\ commands[c].status = "completed"

\* C12: a submit_result whose UPDATE matched no row (no command is COMPLETED
\* with the time of this step) is answered 404 and not as received.
C12_ResultForMissingCommand ==
    [][\A t \in Threads :
          (/\ Starts(t, "submit_result")
           /\ \A c \in DOMAIN commands' :
                 ~(commands'[c].status = "completed"
                      /\ commands'[c].executed_at = now))
          => thr'[t].code = 404]_vars

\* C13: delete_agent for an agent id its lookup does not find answers 404,
\* and neither the lookup nor the handler after it changes a table; it
\* answers 404 for no agent that the lookup finds.
C13_RemoveUnknownAgent ==
    [][\A t \in Threads :
          /\ Starts(t, "delete_agent")
                => /\ agents' = agents /\ commands' = commands
                   /\ thr'[t].agent_id \notin DOMAIN agents
                        <=> (thr'[t].pc = "done" /\ thr'[t].code = 404)
          /\ (thr[t].op = "delete_agent" /\ thr[t].code = 404
                   /\ thr'[t] # thr[t])
                => /\ thr'[t] = Idle
                   /\ agents' = agents /\ commands' = commands]_vars

\* A delete for an agent that was deleted before was answered 404 while
\* the tables hold another agent and its command.
C13_Witness ==
    \E t \in Threads :
        /\ thr[t].op = "delete_agent" /\ thr[t].code = 404
        /\ thr[t].agent_id \notin DOMAIN agents
        /\ thr[t].agent_id <= uuids
        /\ \E c \in DOMAIN commands : commands[c].agent_id \in DOMAIN agents

\* The agents in the table whose source address is ip.
Holders(ip) == {a \in DOMAIN agents : agents[a].ip_address = ip}

\* C14: add_agent_manually answers 409 exactly when its lookup finds an
\* agent with the address, and then changes no table; otherwise its INSERT
\* adds exactly one row, under an id no row has, with status 'manual'.
C14_AdmitManualDuplicate ==
    [][\A t \in Threads :
          /\ Starts(t, "add_agent_manually")
                => /\ agents' = agents /\ commands' = commands
                   /\ thr'[t].code = 409
                        <=> (thr'[t].ip_address # NoIp
                                /\ Holders(thr'[t].ip_address) # {})
                   /\ thr'[t].pc = "insert"
                        <=> (thr'[t].ip_address # NoIp
                                /\ Holders(thr'[t].ip_address) = {})
                   /\ thr'[t].pc = "insert"
                        => /\ thr'[t].agent_id \notin DOMAIN agents
                           /\ thr'[t].agent_id \notin HeldIds(t)
          /\ (thr[t].op = "add_agent_manually" /\ thr[t].code \in {400, 409}
                   /\ thr'[t] # thr[t])
                => /\ thr'[t] = Idle
                   /\ agents' = agents /\ commands' = commands
          /\ Steps(t, "add_agent_manually", "insert")
                => LET id == thr[t].agent_id IN
                   /\ id \notin DOMAIN agents
                   /\ DOMAIN agents' = DOMAIN agents \cup {id}
                   /\ \A a \in DOMAIN agents : agents'[a] = agents[a]
                   /\ agents'[id].status = "manual"
                   /\ agents'[id].ip_address = thr[t].ip_address
                   /\ commands' = commands
                   /\ thr'[t].code = 200 /\ thr'[t].agent_id = id]_vars

\* An admission was answered 409 for the address of an agent that was
\* itself admitted by hand, next to an agent that registered.
C14_Witness ==
    \E t \in Threads :
        /\ thr[t].op = "add_agent_manually" /\ thr[t].code = 409
        /\ \E a \in DOMAIN agents :
              /\ agents[a].ip_address = thr[t].ip_address
              /\ agents[a].status = "manual"
        /\ \E a \in DOMAIN agents : agents[a].status = "active"

\* C15: register_agent answers 200 whatever the tables hold; it adds exactly
\* one row, with status 'active', under an id no row has, and answers that
\* id with the key it stored in the row.
C15_RegisterAlwaysSucceeds ==
    [][\A t \in Threads : Starts(t, "register_agent") =>
          LET id == thr'[t].agent_id IN
          /\ thr'[t].pc = "done" /\ thr'[t].code = 200
          /\ id \notin DOMAIN agents
          /\ id \notin HeldIds(t)
          /\ DOMAIN agents' = DOMAIN agents \cup {id}
          /\ \A a \in DOMAIN agents : agents'[a] = agents[a]
          /\ agents'[id].status = "active"
          /\ thr'[t].encryption_key = agents'[id].encryption_key
          /\ commands' = commands]_vars

\* A registration was answered with its id and key while the table already
\* held a manually admitted agent with the same address.
C15_Witness ==
    \E t \in Threads :
        /\ thr[t].op = "register_agent" /\ thr[t].code = 200
        /\ thr[t].agent_id \in DOMAIN agents
        /\ thr[t].encryption_key = agents[thr[t].agent_id].encryption_key
        /\ \E a \in DOMAIN agents \ {thr[t].agent_id} :
              /\ agents[a].ip_address = agents[thr[t].agent_id].ip_address
              /\ agents[a].status = "manual"

\* C16: a checkin changes the status of no agent but its own, and its own
\* only from STALE to ACTIVE: MANUAL stays MANUAL; a checkin for an unknown
\* id adds no row and changes none.
C16_TouchKeepsStatus ==
    [][\A t \in Threads : CheckinStep(t) =>
          /\ DOMAIN agents' = DOMAIN agents
          /\ thr'[t].agent_id \notin DOMAIN agents => agents' = agents
          /\ \A a \in DOMAIN agents :
                agents'[a].status =
                    IF a = thr'[t].agent_id /\ agents[a].status = "stale"
                    THEN "active" ELSE agents[a].status]_vars

\* C17: an ACTIVE agent whose last checkin is older than the freshness window
\* eventually has status STALE, unless it checks in again or is deleted.
C17_EventuallyStale ==
    \A a \in AgentIds :
        (a \in DOMAIN agents /\ agents[a].status = "active"
            /\ ~SeenWithinWindow(a))
        ~> \/ a \notin DOMAIN agents
           \/ agents[a].status = "stale"
           \/ SeenWithinWindow(a)

\* C18: no step takes an agent's row away or changes what identifies it,
\* no step moves last_seen back or takes an ACTIVE agent out of ACTIVE, and
\* a checkin of an ACTIVE agent changes nothing of its row but last_seen.
C18_AgentRowMonotonic ==
    [][/\ \A a \in DOMAIN agents :
             /\ a \in DOMAIN agents'
             /\ agents'[a].ip_address = agents[a].ip_address
             /\ agents'[a].encryption_key = agents[a].encryption_key
             /\ agents'[a].last_seen >= agents[a].last_seen
             /\ agents[a].status = "active" => agents'[a].status = "active"
       /\ \A t \in Threads :
             (/\ CheckinStep(t)
              /\ thr'[t].agent_id \in DOMAIN agents
              /\ agents[thr'[t].agent_id].status = "active")
             => agents' = [agents EXCEPT ![thr'[t].agent_id].last_seen = now]
      ]_vars

\* Two checkins of the same ACTIVE agent, which has a command from time 0,
\* have run and its last_seen is the later time.
C18_Witness ==
    \E t, u \in Threads :
        /\ t # u
        /\ thr[t].op = "agent_checkin" /\ thr[u].op = "agent_checkin"
        /\ thr[t].agent_id = thr[u].agent_id
        /\ thr[t].agent_id \in DOMAIN agents
        /\ agents[thr[t].agent_id].status = "active"
        /\ agents[thr[t].agent_id].last_seen = 1
        /\ Len(thr[t].response) = 1
        /\ commands[thr[t].response[1].id].created_at = 0
        /\ \E a \in DOMAIN agents : agents[a].status = "manual"

\* C19: the presence map names one session per agent.  A join_agent of
\* session s for agent A makes s the session of A and changes no other
\* entry; a disconnect of session s deletes the entries that name s and
\* no other, so the entry of A that a later session took over stays.
C19_PresenceSuperseded ==
    [][/\ \A s \in Sessions, a \in AgentIds : HandleJoinAgent(s, a) =>
             /\ DOMAIN connected_agents' = DOMAIN connected_agents \cup {a}
             /\ connected_agents'[a] = s
             /\ \A b \in DOMAIN connected_agents \ {a} :
                   connected_agents'[b] = connected_agents[b]
       /\ \A s \in Sessions : HandleDisconnect(s) =>
             /\ DOMAIN connected_agents' =
                   {a \in DOMAIN connected_agents : connected_agents[a] # s}
             /\ \A a \in DOMAIN connected_agents' :
                   connected_agents'[a] = connected_agents[a]
       /\ (\A s \in Sessions :
               ~HandleDisconnect(s) /\ \A a \in AgentIds : ~HandleJoinAgent(s, a))
             => connected_agents' = connected_agents]_vars

\* Session h2 joined as agent A after session h1 had: the map names h2 for
\* A, and h1, still open and in the room of A, is the session of agent B.
C19_Witness ==
    \E h1, h2 \in DOMAIN rooms : \E a, b \in DOMAIN connected_agents :
        /\ h1 # h2 /\ a # b
        /\ a \in rooms[h1] /\ a \in rooms[h2]
        /\ connected_agents[a] = h2
        /\ connected_agents[b] = h1

\* C20: a new_command event of send_command for agent A goes to the session
\* the presence map names for A and to no other session.
C20_SupersededGetsNothing ==
    [][\A t \in Threads : Steps(t, "send_command", "emit") =>
          \A s \in DOMAIN inbox :
              inbox'[s] # inbox[s]
              => /\ thr[t].agent_id \in DOMAIN connected_agents
                 /\ connected_agents[thr[t].agent_id] = s]_vars

\* C23: a command gets an id larger than every id the table ever held,
\* deleted rows included, so ids are unique, never reused, and increase in
\* the order of the INSERTs, across all agents.
C23_CommandIdsIncrease ==
    [][/\ sqlite_sequence' >= sqlite_sequence
       /\ \A c \in DOMAIN commands : c <= sqlite_sequence
       /\ Cardinality(DOMAIN commands' \ DOMAIN commands) <= 1
       /\ \A c \in DOMAIN commands' \ DOMAIN commands :
             /\ c > sqlite_sequence /\ c = sqlite_sequence'
             /\ \A d \in DOMAIN commands :
                   d < c /\ commands[d].created_at <= commands'[c].created_at
       /\ \A t \in Threads : Steps(t, "send_command", "insert") =>
             thr'[t].command_id \in DOMAIN commands' \ DOMAIN commands]_vars

\* Command 1 went with the cascade of its agent's deletion; the command
\* enqueued after that, for the other agent, has id 2.
C23_Witness ==
    \E t \in Threads :
        /\ thr[t].op = "send_command" /\ thr[t].code = 200
        /\ thr[t].command_id = 2
        /\ DOMAIN commands = {2}
        /\ commands[2].agent_id \in DOMAIN agents
        /\ uuids = 2 /\ Cardinality(DOMAIN agents) = 1

\* C27: every command in the ledger is owned by an agent that is in the
\* agent table.
C27_NoOrphanCommand ==
    \A c \in DOMAIN commands : commands[c].agent_id \in DOMAIN agents

\* C28: every agent id in the presence map is the id of an agent that is in
\* the agent table.
C28_PresentAgentsExist == DOMAIN connected_agents \subseteq DOMAIN agents

\* C29: a checkin of agent A returns commands of A only, and a submit_result
\* addressed to agent A changes no command of another agent.
C29_OtherAgentsUntouched ==
    [][/\ \A t \in Threads : CheckinStep(t) =>
             \A c \in Ids(thr'[t].response) :
                 commands[c].agent_id = thr'[t].agent_id
       /\ \A t \in Threads, a \in AgentIds, c \in CommandIds,
             r \in ResultTexts :
             SubmitResult(t, a, c, r) =>
                 \A d \in DOMAIN commands :
                     commands[d].agent_id # a
                     => d \in DOMAIN commands' /\ commands'[d] = commands[d]
      ]_vars

\* A submit_result was answered while the ledger holds a COMPLETED command
\* of one agent and a command of the other agent that is still PENDING.
C29_Witness ==
    \E t \in Threads : \E c, d \in DOMAIN commands :
        /\ thr[t].op = "submit_result"
        /\ commands[c].agent_id # commands[d].agent_id
        /\ commands[c].status = "completed"
        /\ commands[d].status = "pending" /\ commands[d].result = NULL

\* C30: a command that is COMPLETED is in no checkin response the Runtime
\* gets and in no new_command event that is emitted from then on.
C30_CompletedNeverDelivered ==
    [][/\ (rt.pc = "checkin" /\ rt'.pc # "checkin") =>
             \A c \in Ids(rt'.todo) : commands[c].status # "completed"
       /\ \A s \in DOMAIN inbox \cap DOMAIN inbox' :
             \A c \in EventIds(inbox'[s]) \ EventIds(inbox[s]) :
                 commands[c].status # "completed"]_vars

\* C25: an UNREGISTERED Runtime opens no socket, performs no checkin and
\* reports no result; it leaves UNREGISTERED only with an id the controller
\* just gave it, and a run() whose registration failed stays where it is;
\* RUNNING is entered from REGISTERED only, and a REGISTERED Runtime becomes
\* RUNNING whether or not its socket connects.
C25_RunningIffRegistered ==
    /\ [][/\ rt.state = "UNREGISTERED" =>
                /\ rt.pc \in {"register", "exit"}
                /\ sock' = sock /\ handed' = handed /\ reported' = reported
                /\ rt'.state \in {"UNREGISTERED", "REGISTERED"}
                /\ rt'.state = "REGISTERED" =>
                      rt'.agent_id \in DOMAIN agents' \ DOMAIN agents
                /\ rt'.state = "UNREGISTERED" => agents' = agents
                /\ rt.pc = "exit" => rt' = rt
          /\ (rt'.state = "RUNNING" /\ rt.state # "RUNNING") =>
                rt.state = "REGISTERED"
          /\ (rt.state = "REGISTERED" /\ rt' # rt) =>
                rt'.state = "RUNNING" /\ rt'.pc = "checkin"]_vars
    /\ (rt.state = "REGISTERED") ~> (rt.state = "RUNNING")

\* The Runtime is RUNNING without a socket and got a result through.
C25_Witness ==
    /\ rt.state = "RUNNING" /\ rt.sid = 0 /\ DOMAIN rooms = {}
    /\ \E c \in DOMAIN commands :
          reported[c] # NULL /\ commands[c].status = "completed"

\* C26: the step that takes the Runtime out of RUNNING takes it to STOPPED,
\* closes its socket session if it has one and leaves its agent absent from
\* the presence map; a STOPPED Runtime does nothing more and stays absent.
C26_StoppedIsTerminal ==
    [][/\ (rt.state = "RUNNING" /\ rt'.state # "RUNNING") =>
             /\ rt'.state = "STOPPED"
             /\ rt.sid \notin DOMAIN rooms'
             /\ rt.agent_id \notin DOMAIN connected_agents'
       /\ rt.state = "STOPPED" =>
             /\ rt' = rt /\ agents' = agents
             /\ handed' = handed /\ reported' = reported
             /\ rt.agent_id \notin DOMAIN connected_agents']_vars

\* The Runtime is STOPPED after its socket session had joined its room and
\* had served a pushed command; a command enqueued since reached no one.
C26_Witness ==
    /\ rt.state = "STOPPED" /\ DOMAIN rooms = {}
    /\ rt.agent_id \notin DOMAIN connected_agents
    /\ \E c \in DOMAIN commands : handed[c].push >= 1
    /\ \E c \in DOMAIN commands : handed[c].push = 0 /\ handed[c].poll = 0

\* C21: a command text that contains a pattern of the denylist, in any
\* case, gets the forbidden result from execute_command, whether the
\* Runtime took it from a checkin response or from a new_command event.
C21_ForbiddenNeverExecuted ==
    [][/\ (rt.pc = "execute" /\ rt'.pc = "submit") =>
             (IsForbidden(Head(rt.todo).command) => rt'.result = "forbidden")
       /\ (rt.push.pc = "wait" /\ rt'.push.pc = "submit") =>
             (IsForbidden(Head(inbox[rt.sid]).command)
              => rt'.push.result = "forbidden")]_vars

\* C22: execute_command ends with a result, submit_result is tried for it
\* and, whether it got through or not, checkin() goes on to the next command
\* or the sleep; the step that takes the Runtime out of RUNNING is no step
\* of a command; a command taken by the main loop leads to the next checkin
\* and a command taken by the callback to the callback's end, unless the
\* Runtime is stopped first.
C22_CommandsNeverStop ==
    /\ [][/\ (rt.state = "RUNNING" /\ rt.pc = "execute"
                /\ rt'.pc # "execute") =>
                   \/ rt'.state = "STOPPED"
                   \/ rt'.pc = "submit" /\ rt'.result # NULL
          /\ (rt.state = "RUNNING" /\ rt.pc = "submit"
                /\ rt'.pc # "submit") =>
                   \/ rt'.state = "STOPPED"
                   \/ /\ rt'.pc \in {"execute", "sleep"}
                      /\ rt'.todo = Tail(rt.todo)
          /\ (rt.push.pc = "submit" /\ rt'.push.pc # "submit") =>
                rt'.push.pc = "wait" /\ rt'.state = "RUNNING"
          /\ (rt.state = "RUNNING" /\ rt'.state # "RUNNING") =>
                /\ rt'.state = "STOPPED"
                /\ commands' = commands /\ handed' = handed
                /\ reported' = reported /\ rt'.todo = rt.todo
                /\ rt'.result = rt.result /\ rt'.push = rt.push]_vars
    /\ (rt.state = "RUNNING" /\ rt.pc \in {"execute", "submit"})
         ~> (rt.state = "STOPPED" \/ rt.pc = "checkin")
    /\ (rt.state = "RUNNING" /\ rt.push.pc = "submit")
         ~> (rt.state = "STOPPED" \/ rt.push.pc = "wait")

\* The Runtime is RUNNING and asleep after a checkin that handed it, for
\* the second time, a command whose result never got through.
C22_Witness ==
    /\ rt.state = "RUNNING" /\ rt.pc = "sleep"
    /\ \E c \in DOMAIN commands :
          /\ handed[c].poll = 2 /\ reported[c] = NULL
          /\ commands[c].status = "pending"

\* C24: execute_command does not run on the main thread and on the socket
\* thread of one Runtime at the same time.
C24_OneInExecution == ~(rt.pc = "executing" /\ rt.push.pc = "executing")

Deliveries(c) == handed[c].push + handed[c].poll

\* C2: no command is handed to the Runtime as new work more than once, the
\* push channel and the checkin responses taken together.
C2_HandedAtMostOnce == \A c \in CommandIds : Deliveries(c) <= 1

\* C8: a command in the ledger for the agent of a Runtime that keeps polling
\* stays PENDING until it is delivered, and is eventually delivered and
\* COMPLETED with the result text the Runtime reported.
C8_EnqueuedEventuallyCompleted ==
    /\ [](\A c \in DOMAIN commands :
            Deliveries(c) = 0 => commands[c].status = "pending")
    /\ \A c \in CommandIds :
          (c \in DOMAIN commands /\ commands[c].agent_id = rt.agent_id)
          ~> \/ rt.state = "STOPPED"
             \/ /\ c \in DOMAIN commands
                /\ Deliveries(c) >= 1
                /\ commands[c].status = "completed"
                /\ commands[c].result = reported[c]

\* Scenario 1: a command that was never pushed came to the running Runtime
\* in a checkin response and is COMPLETED with the reported result.
C8_Witness ==
    \E c \in DOMAIN commands :
        /\ rt.state = "RUNNING" /\ commands[c].agent_id = rt.agent_id
        /\ commands[c].command = Whoami
        /\ handed[c] = [push |-> 0, poll |-> 1]
        /\ commands[c].status = "completed"
        /\ commands[c].result = "user" /\ reported[c] = "user"

====
